---- MODULE Spec2Model ----
(***************************************************************************)
(* A model of psignifit's prior construction, validation and normalization *)
(* (src/psignifit/priors.py) and of the Result object exercised by         *)
(* src/psignifit/tests/test_result.py.                                     *)
(*                                                                         *)
(* Numbers.  Densities and probe values are fixed-point integers: the real *)
(* number r is the integer r * One.  numpy's non-finite values are the     *)
(* three reserved integers NaN, PosInf and NegInf.                         *)
(***************************************************************************)
EXTENDS Integers, Sequences, FiniteSets, TLC

VARIABLES
    st_range, x, p,         \* prior_threshold: its arguments and its result
    thr_pc,                 \* prior_threshold: "args" before the call, then
                            \*   "returned"
    data,                   \* checkPriors: column 0 of the caller's data array
    options,                \* checkPriors: options['logspace'], options['priors']
    pc,                     \* checkPriors: the position inside the call
    testValues, testResult, \* checkPriors: the locals of the current probe
    events,                 \* checkPriors: the prior evaluations, warnings and
                            \*   errors so far, in the order they happened
    entry,                  \* data as the caller passed it to the current call
    probed,                 \* per call so far, the threshold probe range
    calls,                  \* number of calls of checkPriors so far
    norm_options,           \* normalizePriors: options['priors'] and
                            \*   options['borders']
    priors,                 \* normalizePriors: the list it returned, << >>
                            \*   before the call
    called,                 \* the last call of a returned function: index,
                            \*   argument, result, whether it divided
    std_options,            \* getStandardPriors: stimulusRange, widthmin,
                            \*   widthalpha, betaPrior
    std_priors,             \* getStandardPriors: the list it returned, << >>
                            \*   before the call
    std_called,             \* the last call of one of the five lambdas
    the_result,             \* Result: the object under test
    assigned,               \* Result: the value last assigned to
                            \*   estimate_type, "none" before any assignment
    files,                  \* Result: the JSON document stored at each path
    res_out                 \* Result: the last operation and its outcome

thrVars == <<st_range, x, p, thr_pc>>

chkVars == <<data, options, pc, testValues, testResult, events, entry, probed,
             calls>>

normVars == <<norm_options, priors, called>>

vars == <<st_range, x, p, thr_pc,
          data, options, pc, testValues, testResult, events, entry, probed,
          calls,
          norm_options, priors, called,
          std_options, std_priors, std_called,
          the_result, assigned, files, res_out>>

resVars == <<the_result, assigned, files, res_out>>

stdVars == <<std_options, std_priors, std_called>>

----------------------------------------------------------------------------
(* Fixed point and numpy helpers                                           *)

\* the density 1.0
One == 10000

\* np.zeros_like(x)
zeros_like(a) == [k \in 1..Len(a) |-> 0]

\* One * cos(2*pi*num/den), for num/den a whole number of twelfths of a turn
CosTwelfth == <<10000, 8660, 5000, 0, -5000, -8660, -10000,
                -8660, -5000, 0, 5000, 8660>>

np_cos_turns(num, den) == CosTwelfth[(((12 * num) \div den) % 12) + 1]

----------------------------------------------------------------------------
(* prior_threshold                                                          *)

\* bound: the stimulus range starts at s0 in -MaxS0..MaxS0
MaxS0 == 1

\* bound: the longest input array
MaxLen == 2

\* the spreads s1 - s0 of the modelled stimulus ranges; each divides 12, so
\* that every integer x on a taper is a whole number of twelfths of a turn
Spreads == {2, 4, 12}

StimulusRanges == {<<s0, s0 + sp>> : s0 \in -MaxS0..MaxS0, sp \in Spreads}

\* the candidate values around a range: from one spread below to one above
Candidates(r) == (r[1] - (r[2] - r[1]))..(r[2] + (r[2] - r[1]))

Arrays(S, n) == UNION {[1..k -> S] : k \in 0..n}

\* p[mask] = values: the elements of p selected by mask replaced
Assign(pp, mask, values) ==
    [k \in 1..Len(pp) |-> IF mask[k] THEN values[k] ELSE pp[k]]

prior_threshold_halfturn(xs, range) ==
    LET sp == range[2] - range[1]
        s0 == range[1]
        s1 == range[2]
        n == Len(xs)
        p0 == zeros_like(xs)
        p1 == Assign(p0, [k \in 1..n |-> (s0 < xs[k]) /\ (xs[k] < s1)],
                     [k \in 1..n |-> One])
        left == [k \in 1..n |-> (2 * s0 - sp <= 2 * xs[k]) /\ (xs[k] <= s0)]
        p2 == Assign(p1, left,
                     [k \in 1..n |-> IF left[k]
                         THEN (One + np_cos_turns(s0 - xs[k], 2 * sp)) \div 2
                         ELSE 0])
        right == [k \in 1..n |-> (s1 <= xs[k]) /\ (2 * xs[k] <= 2 * s1 + sp)]
    IN  Assign(p2, right,
               [k \in 1..n |-> IF right[k]
                   THEN (One + np_cos_turns(xs[k] - s1, 2 * sp)) \div 2
                   ELSE 0])

prior_threshold(xs, range) ==
    LET sp == range[2] - range[1]
        s0 == range[1]
        s1 == range[2]
        n == Len(xs)
        p0 == zeros_like(xs)
        p1 == Assign(p0, [k \in 1..n |-> (s0 < xs[k]) /\ (xs[k] < s1)],
                     [k \in 1..n |-> One])
        left == [k \in 1..n |-> (2 * s0 - sp <= 2 * xs[k]) /\ (xs[k] <= s0)]
        p2 == Assign(p1, left,
                     [k \in 1..n |-> IF left[k]
                         THEN (One + np_cos_turns(s0 - xs[k], sp)) \div 2
                         ELSE 0])
        right == [k \in 1..n |-> (s1 <= xs[k]) /\ (2 * xs[k] <= 2 * s1 + sp)]
    IN  Assign(p2, right,
               [k \in 1..n |-> IF right[k]
                   THEN (One + np_cos_turns(xs[k] - s1, sp)) \div 2
                   ELSE 0])

ThresholdInit ==
    /\ st_range \in StimulusRanges
    /\ x \in Arrays(Candidates(st_range), MaxLen)
    /\ p = << >>
    /\ thr_pc = "args"

\* p = prior_threshold(x, st_range)
ThresholdCall ==
    /\ thr_pc = "args"
    /\ p' = prior_threshold(x, st_range)
    /\ thr_pc' = "returned"
    /\ UNCHANGED <<st_range, x>>
    /\ UNCHANGED <<chkVars, normVars, stdVars, resVars>>

----------------------------------------------------------------------------
(* checkPriors and testForWarnings                                          *)

\* numpy's nan, inf and -inf
NaN == 2000000000
PosInf == 1000000000
NegInf == -1000000000

np_isfinite(v) == v \notin {NaN, PosInf, NegInf}

\* bound: how many of the five configured priors differ from the flat prior
MaxCustom == 2

\* bound: how many times checkPriors is called on the same data array
MaxCalls == 2

\* number of probe values per parameter
NumProbes == 25

\* the five parameters, in the order of options['priors']
Parameters == <<"threshold", "width", "lambda", "gamma", "eta">>

\* The data arrays of the model (column 0, the stimulus levels 16.0, 20.0
\* and 30.0): one level only; two levels ascending; descending; a repeated
\* level; three levels out of order, whose smallest gap is not the spread.
DataArrays ==
    {<<160000>>,
     <<300000, 160000>>,
     <<300000, 160000, 300000>>,
     <<200000, 160000, 300000>>}

\* np.log on the values the model meets: the stimulus levels and their
\* iterated logarithms (rounded to 1/One)
np_log_scalar(v) ==
    CASE v = 160000 -> 27726
      [] v = 200000 -> 29957
      [] v = 300000 -> 34012
      [] v = 27726 -> 10198
      [] v = 29957 -> 10972
      [] v = 34012 -> 12241
      [] v = 10198 -> 196
      [] v = 10972 -> 928
      [] v = 12241 -> 2022
      [] v = 196 -> -39322
      [] v = 928 -> -23773
      [] v = 2022 -> -15985

np_log(a) == [k \in 1..Len(a) |-> np_log_scalar(a[k])]

SeqRange(a) == {a[k] : k \in 1..Len(a)}

SetMin(S) == CHOOSE m \in S : \A v \in S : m <= v
SetMax(S) == CHOOSE m \in S : \A v \in S : v <= m

np_min(a) == SetMin(SeqRange(a))
np_max(a) == SetMax(SeqRange(a))

RECURSIVE Ascending(_)
Ascending(S) ==
    IF S = {} THEN << >> ELSE <<SetMin(S)>> \o Ascending(S \ {SetMin(S)})

\* np.unique: the distinct values, ascending
np_unique(a) == Ascending(SeqRange(a))

\* np.sort, by insertion
RECURSIVE np_sort(_)
np_sort(a) ==
    IF Len(a) <= 1 THEN a
    ELSE LET rest == np_sort(Tail(a))
             lower == SelectSeq(rest, LAMBDA v : v < Head(a))
             upper == SelectSeq(rest, LAMBDA v : ~(v < Head(a)))
         IN  lower \o <<Head(a)>> \o upper

np_diff(a) == [k \in 1..(Len(a) - 1) |-> a[k + 1] - a[k]]

\* np.linspace(start, stop, num): num values, the first start, the last stop
np_linspace(start, stop, num) ==
    [k \in 1..num |-> start + ((k - 1) * (stop - start)) \div (num - 1)]

\* The prior functions a user may configure, by name.  "flat" is a proper
\* density; "box" is uniform on (0, 1) and zero elsewhere; the others return
\* negative values, nan, inf, or the value x - 0.45, which changes sign
\* inside [0, 0.9].
PriorNames == {"flat", "box", "minus", "nan", "inf", "shift"}

PriorAt(f, v) ==
    CASE f = "flat" -> One
      [] f = "box" -> IF 0 < v /\ v < One THEN One ELSE 0
      [] f = "minus" -> -One
      [] f = "nan" -> NaN
      [] f = "inf" -> PosInf
      [] f = "shift" -> v - 4500

\* options['priors'][idx](testValues)
CallPrior(f, values) == [k \in 1..Len(values) |-> PriorAt(f, values[k])]

PriorLists ==
    {pl \in [1..5 -> PriorNames] :
        Cardinality({i \in 1..5 : pl[i] # "flat"}) <= MaxCustom}

\* mutant: the sign assertion written with > instead of >=
testForWarnings_strict(result, parameter) ==
    IF ~(\A k \in 1..Len(result) : np_isfinite(result[k]))
    THEN [raise |-> "non-finite", warn |-> FALSE, parameter |-> parameter]
    ELSE IF ~(\A k \in 1..Len(result) : result[k] > 0)
    THEN [raise |-> "negative", warn |-> FALSE, parameter |-> parameter]
    ELSE [raise |-> "none", warn |-> FALSE, parameter |-> parameter]

\* mutant: the zero test and its warning moved before the two assertions
testForWarnings_warn_first(result, parameter) ==
    LET zeros == \E k \in 1..Len(result) : result[k] = 0
    IN  IF ~(\A k \in 1..Len(result) : np_isfinite(result[k]))
        THEN [raise |-> "non-finite", warn |-> zeros, parameter |-> parameter]
        ELSE IF ~(\A k \in 1..Len(result) : result[k] >= 0)
        THEN [raise |-> "negative", warn |-> zeros, parameter |-> parameter]
        ELSE [raise |-> "none", warn |-> zeros, parameter |-> parameter]

\* what testForWarnings does with a probe result: the assertion that fails
\* first, if any, and otherwise whether it warns
testForWarnings(result, parameter) ==
    IF ~(\A k \in 1..Len(result) : np_isfinite(result[k]))
    THEN [raise |-> "non-finite", warn |-> FALSE, parameter |-> parameter]
    ELSE IF ~(\A k \in 1..Len(result) : result[k] >= 0)
    THEN [raise |-> "negative", warn |-> FALSE, parameter |-> parameter]
    ELSE [raise |-> "none",
          warn |-> \E k \in 1..Len(result) : result[k] = 0,
          parameter |-> parameter]

\* the threshold probe values of lines 115-118
ThresholdProbe(d) ==
    LET data_min == np_min(d)
        data_max == np_max(d)
        dataspread == data_max - data_min
    IN  np_linspace(data_min - (4 * dataspread) \div 10,
                    data_max + (4 * dataspread) \div 10, NumProbes)

\* the width probe values of line 126; np.min raises on an empty array
WidthGaps(d) == np_diff(np_sort(np_unique(d)))

WidthProbe(d) ==
    np_linspace((11 * np_min(WidthGaps(d))) \div 10,
                (29 * (np_max(d) - np_min(d))) \div 10, NumProbes)

Position(i) == Parameters[i]

After(i) == IF i = 5 THEN "returned" ELSE Parameters[i + 1]

\* one block of checkPriors: evaluate prior i on its probe values and hand
\* the result to testForWarnings
Probe(i, values) ==
    LET result == CallPrior(options.priors[i], values)
        t == testForWarnings(result, Parameters[i])
    IN  /\ pc = Position(i)
        /\ testValues' = values
        /\ testResult' = result
        /\ events' = events
              \o <<[call |-> calls, kind |-> "eval", idx |-> i, what |-> "prior"]>>
              \o (IF t.warn
                  THEN <<[call |-> calls, kind |-> "warn", idx |-> i,
                          what |-> "zeros"]>>
                  ELSE << >>)
              \o (IF t.raise # "none"
                  THEN <<[call |-> calls, kind |-> "raise", idx |-> i,
                          what |-> t.raise]>>
                  ELSE << >>)
        /\ pc' = IF t.raise # "none" THEN "raised" ELSE After(i)
        /\ UNCHANGED <<data, options, entry, calls>>

CheckInit ==
    /\ data \in DataArrays
    /\ options \in [logspace : BOOLEAN, priors : PriorLists]
    /\ pc = "idle"
    /\ testValues = << >>
    /\ testResult = << >>
    /\ events = << >>
    /\ entry = data
    /\ probed = << >>
    /\ calls = 0

\* checkPriors(data, options) is entered: lines 109-110
CheckPriorsEnter ==
    /\ pc \in {"idle", "returned", "raised"}
    /\ calls < MaxCalls
    /\ calls' = calls + 1
    /\ entry' = data
    /\ data' = IF options.logspace THEN np_log(data) ELSE data
    /\ events' = events
    /\ testValues' = << >>
    /\ testResult' = << >>
    /\ pc' = "threshold"
    /\ UNCHANGED <<options, probed>>
    /\ UNCHANGED <<thrVars, normVars, stdVars, resVars>>

\* lines 115-122
ProbeThreshold ==
    /\ Probe(1, ThresholdProbe(data))
    /\ probed' = Append(probed, <<ThresholdProbe(data)[1],
                                  ThresholdProbe(data)[NumProbes]>>)
    /\ UNCHANGED <<thrVars, normVars, stdVars, resVars>>

\* lines 126-129
ProbeWidth ==
    /\ pc = "width"
    /\ IF Len(WidthGaps(data)) = 0
       THEN /\ events' = Append(events,
                   [call |-> calls, kind |-> "error", idx |-> 2,
                    what |-> "ValueError"])
            /\ pc' = "raised"
            /\ UNCHANGED <<data, options, testValues, testResult, entry,
                           probed, calls>>
       ELSE /\ Probe(2, WidthProbe(data))
            /\ UNCHANGED probed
    /\ UNCHANGED <<thrVars, normVars, stdVars, resVars>>

\* lines 134-137
ProbeLambda ==
    /\ Probe(3, np_linspace(1, 9000, NumProbes))
    /\ UNCHANGED probed
    /\ UNCHANGED <<thrVars, normVars, stdVars, resVars>>

\* lines 142-145
ProbeGamma ==
    /\ Probe(4, np_linspace(1, 9000, NumProbes))
    /\ UNCHANGED probed
    /\ UNCHANGED <<thrVars, normVars, stdVars, resVars>>

\* lines 150-153
ProbeEta ==
    /\ Probe(5, np_linspace(0, 9000, NumProbes))
    /\ UNCHANGED probed
    /\ UNCHANGED <<thrVars, normVars, stdVars, resVars>>

----------------------------------------------------------------------------
(* normalizePriors and normalizeFunction                                    *)

\* number of points of the quadrature
NumPoints == 1000

\* The borders of the model: [0, 1], [1, 2] and the fixed value 0.5.
NormBorders == {<<0, 10000>>, <<10000, 20000>>, <<5000, 5000>>}

\* the configured priors of the model: those of PriorNames with finite
\* values that are not negative everywhere
NormPriorNames == {"flat", "box", "shift"}

\* the arrays the returned functions are called with
NormSamples == {<< >>, <<2500>>, <<2500, 12500>>}

\* element k of 2 * np.convolve(d, [.5, .5]): the gap to the left of point
\* k plus the gap to its right
convolve_half(d, k) ==
    (IF k <= Len(d) THEN d[k] ELSE 0) + (IF k >= 2 THEN d[k - 1] ELSE 0)

RECURSIVE SumRange(_, _, _)
SumRange(t, lo, hi) ==
    IF lo > hi THEN 0
    ELSE IF lo = hi THEN t[lo]
    ELSE SumRange(t, lo, (lo + hi) \div 2)
         + SumRange(t, ((lo + hi) \div 2) + 1, hi)

\* lines 188-192: sum(y * w) for prior f over borders b, times 2 * One * One
TrapezoidIntegral(f, b) ==
    LET xs == np_linspace(b[1], b[2], NumPoints)
        y == CallPrior(f, xs)
        d == np_diff(xs)
    IN  SumRange([k \in 1..NumPoints |-> y[k] * convolve_half(d, k)],
                 1, NumPoints)

\* TrapezoidIntegral, computed once for every prior and borders of the model
IntegralTable ==
    [f \in PriorNames \ {"nan", "inf"} |->
        [b \in NormBorders |-> TrapezoidIntegral(f, b)]]

PriorIntegral(f, b) == IntegralTable[f][b]

\* the closure lambda x: func(x)/integral
normalizeFunction(func, integral) ==
    [kind |-> "quotient", func |-> func, integral |-> integral]

\* the closure lambda x: np.ones_like(x, dtype='float')
OnesFunction == [kind |-> "ones", func |-> "-", integral |-> 0]

\* mutant: the closure built inside the loop, so that every closure reads
\* idx and integral as the loop left them
normalizePriors_late_binding(opts) ==
    LET n == Len(opts.priors)
        open == {i \in 1..n : opts.borders[i][2] > opts.borders[i][1]}
        last == SetMax(open)
    IN  [idx \in 1..n |->
            IF opts.borders[idx][2] > opts.borders[idx][1]
            THEN normalizeFunction(opts.priors[n],
                     PriorIntegral(opts.priors[last], opts.borders[last]))
            ELSE OnesFunction]

\* mutant: the test of the borders written with >= instead of >
normalizePriors_no_guard(opts) ==
    [idx \in 1..Len(opts.priors) |->
        IF opts.borders[idx][2] >= opts.borders[idx][1]
        THEN normalizeFunction(opts.priors[idx],
                 PriorIntegral(opts.priors[idx], opts.borders[idx]))
        ELSE OnesFunction]

normalizePriors(opts) ==
    [idx \in 1..Len(opts.priors) |->
        IF opts.borders[idx][2] > opts.borders[idx][1]
        THEN normalizeFunction(opts.priors[idx],
                 PriorIntegral(opts.priors[idx], opts.borders[idx]))
        ELSE OnesFunction]

\* a returned function called with the array xs.  A value is the fraction
\* <<numerator, denominator>>; a quotient closure divides func(x), which is
\* scaled by One, by its integral, which is scaled by 2 * One * One.
CallReturned(fn, xs) ==
    IF fn.kind = "ones"
    THEN [y |-> [k \in 1..Len(xs) |-> <<1, 1>>], divided |-> FALSE]
    ELSE [y |-> [k \in 1..Len(xs) |->
                    <<2 * One * PriorAt(fn.func, xs[k]), fn.integral>>],
          divided |-> TRUE]

NormConfigurations ==
    {o \in [priors : [1..5 -> NormPriorNames],
            borders : [1..5 -> NormBorders]] :
        Cardinality({i \in 1..5 : o.priors[i] # "flat"
                                  \/ o.borders[i] # <<0, 10000>>})
            <= MaxCustom}

NotCalled == [idx |-> 0, x |-> << >>, y |-> << >>, divided |-> FALSE]

NormInit ==
    /\ norm_options \in NormConfigurations
    /\ priors = << >>
    /\ called = NotCalled

\* priors = normalizePriors(options)
NormalizePriors ==
    /\ priors = << >>
    /\ priors' = normalizePriors(norm_options)
    /\ UNCHANGED <<norm_options, called>>
    /\ UNCHANGED <<thrVars, chkVars, stdVars, resVars>>

\* priors[idx](xs) for one of the returned functions
CallNormalized ==
    /\ priors # << >>
    /\ \E i \in 1..Len(priors), xs \in NormSamples :
          called' = [idx |-> i, x |-> xs,
                     y |-> CallReturned(priors[i], xs).y,
                     divided |-> CallReturned(priors[i], xs).divided]
    /\ UNCHANGED <<norm_options, priors>>
    /\ UNCHANGED <<thrVars, chkVars, stdVars, resVars>>

----------------------------------------------------------------------------
(* getStandardPriors                                                        *)

\* the names bound in the module's namespace when a lambda is called: the
\* three imports of lines 4-7 and the functions the module defines
ModuleGlobals ==
    {"np", "warnings", "norminv",
     "prior_threshold", "prior_width", "getStandardPriors", "checkPriors",
     "testForWarnings", "normalizeFunction", "normalizePriors"}

\* utils.norminv at the probabilities the model uses, scaled by One
norminv(q) ==
    CASE q = 500 -> -16449
      [] q = 1000 -> -12816
      [] q = 9000 -> 12816
      [] q = 9500 -> 16449

\* the lists of options['widthalpha'] (0.05, 0.1), options['widthmin'] and
\* options['betaPrior'] of the model
StandardOptions ==
    [stimulusRange : StimulusRanges,
     widthmin : {1, 2},
     widthalpha : {500, 1000},
     betaPrior : {10, 20}]

\* the list getStandardPriors builds: per lambda, the global name its body
\* looks up when called, and the arguments it passes after x
getStandardPriors(d, opts) ==
    LET xspread == opts.stimulusRange[2] - opts.stimulusRange[1]
        widthmin == opts.widthmin
        widthmax == xspread
        Cfactor == (One * (norminv(9500) - norminv(500)))
                   \div (norminv(One - opts.widthalpha)
                         - norminv(opts.widthalpha))
        be == opts.betaPrior
    IN  << [name |-> "prior1", args |-> <<xspread, opts.stimulusRange>>],
           [name |-> "prior2", args |-> <<Cfactor, widthmin, widthmax>>],
           [name |-> "ss", args |-> <<1, 10>>],
           [name |-> "ss", args |-> <<1, 10>>],
           [name |-> "ss", args |-> <<1, be>>] >>

\* calling one of the lambdas with the array xs: the body looks its global
\* name up first, and Python raises NameError for a name that is not bound.
\* The value of a call that gets past the lookup is not modelled beyond its
\* shape.
CallLambda(lam, xs) ==
    IF lam.name \notin ModuleGlobals
    THEN [raised |-> "NameError", name |-> lam.name, shape |-> 0]
    ELSE [raised |-> "none", name |-> lam.name, shape |-> Len(xs)]

StdNotCalled ==
    [idx |-> 0, x |-> << >>, raised |-> "none", name |-> "-", shape |-> 0]

StandardInit ==
    /\ std_options \in StandardOptions
    /\ std_priors = << >>
    /\ std_called = StdNotCalled

\* priors = getStandardPriors(data, options)
GetStandardPriors ==
    /\ std_priors = << >>
    /\ std_priors' = getStandardPriors(<< >>, std_options)
    /\ UNCHANGED <<std_options, std_called>>
    /\ UNCHANGED <<thrVars, chkVars, normVars, resVars>>

\* priors[idx](xs) for one of the five lambdas
CallStandardPrior ==
    /\ std_priors # << >>
    /\ \E i \in 1..Len(std_priors), xs \in NormSamples :
          LET r == CallLambda(std_priors[i], xs)
          IN  std_called' = [idx |-> i, x |-> xs, raised |-> r.raised,
                             name |-> r.name, shape |-> r.shape]
    /\ UNCHANGED <<std_options, std_priors>>
    /\ UNCHANGED <<thrVars, chkVars, normVars, resVars>>

----------------------------------------------------------------------------
(* Result                                                                   *)

ParameterNames == {"threshold", "width", "lambda", "gamma", "eta"}

Estimate(t, w, l, g, e) ==
    [threshold |-> t, width |-> w, lambda |-> l, gamma |-> g, eta |-> e]

\* the same value for each of the five parameters
PerParameter(v) == [k \in ParameterNames |-> v]

\* Configuration(): the options of a fit that the model carries
Configuration(alpha) ==
    [class |-> "Configuration", widthalpha |-> alpha, logspace |-> FALSE]

\* the junk _build_result fills the remaining fields with
JunkLists == {<<1234, 5678>>, <<1, 9999, 5000>>}

\* Result(...) as _build_result constructs it; estimate_type defaults to MAP
build_result(MAP, mean, intervals, junk) ==
    [class |-> "Result",
     configuration |-> Configuration(500),
     parameters_estimate_MAP |-> MAP,
     parameters_estimate_mean |-> mean,
     confidence_intervals |-> intervals,
     data |-> <<junk, junk>>,
     parameter_values |-> PerParameter(junk),
     prior_values |-> PerParameter(junk),
     marginal_posterior_values |-> PerParameter(junk),
     debug |-> junk,
     estimate_type |-> "MAP"]

\* the three results the tests build, values scaled by One
ResultFixtures ==
    { build_result(Estimate(50, 50, 123, 210, 1),
                   Estimate(20, 20, 130, 240, 10),
                   PerParameter(<< <<10, 50>>, <<50, 100>>, <<1000, 2000>> >>),
                   j) : j \in JunkLists }
    \cup
    { build_result(Estimate(5000, 9000, 1000, 2000, 0),
                   Estimate(5000, 9000, 1000, 2000, 0),
                   [PerParameter(<< <<0, 0>> >>) EXCEPT
                       !["threshold"] = << <<5000, 5000>> >>,
                       !["width"] = << <<9000, 9000>> >>,
                       !["lambda"] = << <<500, 2000>> >>,
                       !["gamma"] = << <<1000, 3000>> >>],
                   j) : j \in JunkLists }
    \cup
    { build_result(Estimate(8700, 21000, 0, 0, 0),
                   Estimate(8700, 21000, 0, 0, 0),
                   [PerParameter(<< <<0, 0>> >>) EXCEPT
                       !["threshold"] = << <<8700, 8700>> >>,
                       !["width"] = << <<21000, 21000>> >>,
                       !["lambda"] = << <<500, 2000>> >>,
                       !["gamma"] = << <<1000, 3000>> >>],
                   j) : j \in JunkLists }

EstimateTypes == {"MAP", "mean"}

\* the estimate_type arguments of get_parameters_estimate
EstimateArguments == {"None", "MAP", "mean", "foo"}

\* the proportion_correct arrays passed to threshold, scaled by One
CriteriaArrays ==
    { <<105>>, <<124>>, <<210>>, <<225>>, <<2000>>, <<5000>>, <<7000>>,
      <<9000>>, <<9875>>, <<9877>>, <<9900>>,
      <<5000, 105>>, <<5000, 9900>>, <<2500, 5000>>, <<225, 9875>> }

Paths == {"result.json"}

\* get_parameters_estimate that ignores the instance's estimate_type
get_parameters_estimate_default_MAP(r, estimate_type) ==
    CASE estimate_type \in {"None", "MAP"} ->
           [raised |-> "none", value |-> r.parameters_estimate_MAP]
      [] estimate_type = "mean" ->
           [raised |-> "none", value |-> r.parameters_estimate_mean]
      [] OTHER ->
           [raised |-> "ValueError", value |-> << >>]

\* Result.get_parameters_estimate(estimate_type=None)
get_parameters_estimate(r, estimate_type) ==
    LET type == IF estimate_type = "None" THEN r.estimate_type
                ELSE estimate_type
    IN  CASE type = "MAP" ->
               [raised |-> "none", value |-> r.parameters_estimate_MAP]
          [] type = "mean" ->
               [raised |-> "none", value |-> r.parameters_estimate_mean]
          [] OTHER ->
               [raised |-> "ValueError", value |-> << >>]

\* threshold that only rejects criteria at or below gamma
threshold_lower_only(r, proportion_correct) ==
    LET estimate == get_parameters_estimate(r, "None").value
    IN  IF \E k \in DOMAIN proportion_correct :
              proportion_correct[k] <= estimate.gamma
        THEN [raised |-> "ValueError"]
        ELSE [raised |-> "none"]

\* Result.threshold(proportion_correct): the range check on the estimate of
\* the selected type; the inversion of the sigmoid is not modelled
threshold(r, proportion_correct) ==
    LET estimate == get_parameters_estimate(r, "None").value
    IN  IF \E k \in DOMAIN proportion_correct :
              \/ proportion_correct[k] <= estimate.gamma
              \/ proportion_correct[k] >= One - estimate.lambda
        THEN [raised |-> "ValueError"]
        ELSE [raised |-> "none"]

\* Result.as_dict(): a plain mapping with a key for each field, the
\* configuration as its own mapping
as_dict(r) ==
    [r EXCEPT !.class = "dict",
              !.configuration = [@ EXCEPT !.class = "dict"]]

\* Configuration.from_dict
Configuration_from_dict(d) == [d EXCEPT !.class = "Configuration"]

\* Result.from_dict
from_dict(d) ==
    [d EXCEPT !.class = "Result",
              !.configuration = Configuration_from_dict(@)]

RECURSIVE Digits(_)
\* the decimal digits of a natural number, most significant first
Digits(n) == IF n < 10 THEN <<n>> ELSE Append(Digits(n \div 10), n % 10)

RECURSIVE DigitsValue(_)
\* the natural number a sequence of decimal digits denotes
DigitsValue(ds) ==
    IF ds = << >> THEN 0
    ELSE 10 * DigitsValue(SubSeq(ds, 1, Len(ds) - 1)) + ds[Len(ds)]

Abs(n) == IF n < 0 THEN -n ELSE n

\* a number written with three decimals only
FormatNumber_three_decimals(n) ==
    [negative |-> n < 0,
     whole |-> Digits(Abs(n) \div One),
     fraction |-> << (Abs(n) % One) \div 1000,
                     ((Abs(n) % One) \div 100) % 10,
                     ((Abs(n) % One) \div 10) % 10 >>]

\* the text of a number in the JSON document: sign, integer digits and all
\* the decimals the value has
FormatNumber(n) ==
    [negative |-> n < 0,
     whole |-> Digits(Abs(n) \div One),
     fraction |-> << (Abs(n) % One) \div 1000,
                     ((Abs(n) % One) \div 100) % 10,
                     ((Abs(n) % One) \div 10) % 10,
                     Abs(n) % 10 >>]

\* the number a text of the JSON document denotes
ParseNumber(t) ==
    LET scale == CASE Len(t.fraction) = 4 -> 1
                   [] Len(t.fraction) = 3 -> 10
                   [] Len(t.fraction) = 2 -> 100
                   [] Len(t.fraction) = 1 -> 1000
                   [] OTHER -> One
        magnitude == DigitsValue(t.whole) * One
                     + DigitsValue(t.fraction) * scale
    IN  IF t.negative THEN -magnitude ELSE magnitude

FormatList(l) == [k \in DOMAIN l |-> FormatNumber(l[k])]
ParseList(l) == [k \in DOMAIN l |-> ParseNumber(l[k])]
FormatNested(m) == [k \in DOMAIN m |-> FormatList(m[k])]
ParseNested(m) == [k \in DOMAIN m |-> ParseList(m[k])]
FormatIntervals(m) == [k \in DOMAIN m |-> FormatNested(m[k])]
ParseIntervals(m) == [k \in DOMAIN m |-> ParseNested(m[k])]

\* the JSON document of a mapping as_dict returned
json_dump(d) ==
    [configuration |->
         [widthalpha |-> FormatNumber(d.configuration.widthalpha),
          logspace |-> d.configuration.logspace],
     parameters_estimate_MAP |-> FormatList(d.parameters_estimate_MAP),
     parameters_estimate_mean |-> FormatList(d.parameters_estimate_mean),
     confidence_intervals |-> FormatIntervals(d.confidence_intervals),
     data |-> FormatNested(d.data),
     parameter_values |-> FormatNested(d.parameter_values),
     prior_values |-> FormatNested(d.prior_values),
     marginal_posterior_values |-> FormatNested(d.marginal_posterior_values),
     debug |-> FormatList(d.debug),
     estimate_type |-> d.estimate_type]

\* the mapping a JSON document is parsed to
json_load(doc) ==
    [class |-> "dict",
     configuration |->
         [class |-> "dict",
          widthalpha |-> ParseNumber(doc.configuration.widthalpha),
          logspace |-> doc.configuration.logspace],
     parameters_estimate_MAP |-> ParseList(doc.parameters_estimate_MAP),
     parameters_estimate_mean |-> ParseList(doc.parameters_estimate_mean),
     confidence_intervals |-> ParseIntervals(doc.confidence_intervals),
     data |-> ParseNested(doc.data),
     parameter_values |-> ParseNested(doc.parameter_values),
     prior_values |-> ParseNested(doc.prior_values),
     marginal_posterior_values |-> ParseNested(doc.marginal_posterior_values),
     debug |-> ParseList(doc.debug),
     estimate_type |-> doc.estimate_type]

\* no file at a path
Absent == [exists |-> FALSE]

NoOperation == [op |-> "none"]

ResultInit ==
    /\ the_result \in ResultFixtures
    /\ assigned = "none"
    /\ files = [f \in Paths |-> Absent]
    /\ res_out = NoOperation

\* result.estimate_type = t
SetEstimateType ==
    /\ \E t \in EstimateTypes :
          /\ the_result' = [the_result EXCEPT !.estimate_type = t]
          /\ assigned' = t
          /\ res_out' = [op |-> "set", arg |-> t]
    /\ UNCHANGED files
    /\ UNCHANGED <<thrVars, chkVars, normVars, stdVars>>

\* result.get_parameters_estimate(estimate_type)
GetParametersEstimate ==
    /\ \E a \in EstimateArguments :
          LET r == get_parameters_estimate(the_result, a)
          IN  res_out' = [op |-> "get", arg |-> a,
                          raised |-> r.raised, value |-> r.value]
    /\ UNCHANGED <<the_result, assigned, files>>
    /\ UNCHANGED <<thrVars, chkVars, normVars, stdVars>>

\* result.threshold(proportion_correct)
Threshold ==
    /\ \E c \in CriteriaArrays :
          res_out' = [op |-> "threshold", arg |-> c,
                      raised |-> threshold(the_result, c).raised]
    /\ UNCHANGED <<the_result, assigned, files>>
    /\ UNCHANGED <<thrVars, chkVars, normVars, stdVars>>

\* result_dict = result.as_dict()
AsDict ==
    /\ res_out' = [op |-> "as_dict", value |-> as_dict(the_result)]
    /\ UNCHANGED <<the_result, assigned, files>>
    /\ UNCHANGED <<thrVars, chkVars, normVars, stdVars>>

\* Result.from_dict(result_dict)
FromDict ==
    /\ res_out.op = "as_dict"
    /\ res_out' = [op |-> "from_dict", value |-> from_dict(res_out.value)]
    /\ UNCHANGED <<the_result, assigned, files>>
    /\ UNCHANGED <<thrVars, chkVars, normVars, stdVars>>

\* result.save_json(result_file)
SaveJson ==
    /\ \E f \in Paths :
          /\ files' = [files EXCEPT ![f] =
                          [exists |-> TRUE,
                           document |-> json_dump(as_dict(the_result))]]
          /\ res_out' = [op |-> "save_json", arg |-> f]
    /\ UNCHANGED <<the_result, assigned>>
    /\ UNCHANGED <<thrVars, chkVars, normVars, stdVars>>

\* other = Result.load_json(result_file)
LoadJson ==
    /\ \E f \in Paths :
          /\ files[f].exists
          /\ res_out' = [op |-> "load_json", arg |-> f,
                         value |-> from_dict(json_load(files[f].document))]
    /\ UNCHANGED <<the_result, assigned, files>>
    /\ UNCHANGED <<thrVars, chkVars, normVars, stdVars>>

----------------------------------------------------------------------------
(* Specifications                                                           *)

ThresholdIdle ==
    st_range = <<0, 2>> /\ x = << >> /\ p = << >> /\ thr_pc = "args"

CheckIdle ==
    /\ data = <<300000, 160000>>
    /\ options = [logspace |-> FALSE, priors |-> [i \in 1..5 |-> "flat"]]
    /\ pc = "idle"
    /\ testValues = << >>
    /\ testResult = << >>
    /\ events = << >>
    /\ entry = data
    /\ probed = << >>
    /\ calls = 0

NormIdle ==
    /\ norm_options = [priors |-> [i \in 1..5 |-> "flat"],
                       borders |-> [i \in 1..5 |-> <<0, 10000>>]]
    /\ priors = << >>
    /\ called = NotCalled

StandardIdle ==
    /\ std_options = [stimulusRange |-> <<0, 2>>, widthmin |-> 1,
                      widthalpha |-> 500, betaPrior |-> 10]
    /\ std_priors = << >>
    /\ std_called = StdNotCalled

ResultIdle ==
    /\ the_result = build_result(Estimate(50, 50, 123, 210, 1),
                                 Estimate(20, 20, 130, 240, 10),
                                 PerParameter(<< <<10, 50>> >>),
                                 <<1234, 5678>>)
    /\ assigned = "none"
    /\ files = [f \in Paths |-> Absent]
    /\ res_out = NoOperation

InitThreshold ==
    ThresholdInit /\ CheckIdle /\ NormIdle /\ StandardIdle /\ ResultIdle

ThresholdNext == ThresholdCall

SpecThreshold == InitThreshold /\ [][ThresholdNext]_vars

InitCheck ==
    CheckInit /\ ThresholdIdle /\ NormIdle /\ StandardIdle /\ ResultIdle

CheckNext ==
    \/ CheckPriorsEnter
    \/ ProbeThreshold
    \/ ProbeWidth
    \/ ProbeLambda
    \/ ProbeGamma
    \/ ProbeEta

SpecCheck == InitCheck /\ [][CheckNext]_vars

InitNormalize ==
    NormInit /\ ThresholdIdle /\ CheckIdle /\ StandardIdle /\ ResultIdle

NormalizeNext ==
    \/ NormalizePriors
    \/ CallNormalized

SpecNormalize == InitNormalize /\ [][NormalizeNext]_vars

InitStandard ==
    StandardInit /\ ThresholdIdle /\ CheckIdle /\ NormIdle /\ ResultIdle

StandardNext ==
    \/ GetStandardPriors
    \/ CallStandardPrior

SpecStandard == InitStandard /\ [][StandardNext]_vars

InitResult ==
    ResultInit /\ ThresholdIdle /\ CheckIdle /\ NormIdle /\ StandardIdle

ResultNext ==
    \/ SetEstimateType
    \/ GetParametersEstimate
    \/ Threshold
    \/ AsDict
    \/ FromDict
    \/ SaveJson
    \/ LoadJson

SpecResult == InitResult /\ [][ResultNext]_vars

----------------------------------------------------------------------------
(* C4: prior_threshold is exactly 1 strictly inside the stimulus range, 0  *)
(* beyond half a spread outside it, within [0, 1] on the two tapers, 1 at  *)
(* x = s0 and x = s1, 0 at x = s0 - sp/2 and x = s1 + sp/2, and its output *)
(* has the shape of its input.                                             *)
ThresholdShape ==
    LET s0 == st_range[1]
        s1 == st_range[2]
        sp == s1 - s0
    IN  thr_pc = "returned" =>
        /\ Len(p) = Len(x)
        /\ \A k \in 1..Len(x) :
              /\ (s0 < x[k] /\ x[k] < s1) => p[k] = One
              /\ (2 * x[k] < 2 * s0 - sp \/ 2 * x[k] > 2 * s1 + sp) => p[k] = 0
              /\ 0 <= p[k] /\ p[k] <= One
              /\ (x[k] = s0 \/ x[k] = s1) => p[k] = One
              /\ (2 * x[k] = 2 * s0 - sp \/ 2 * x[k] = 2 * s1 + sp) => p[k] = 0

\* an array with a point at the outer end of a taper and one strictly inside
\* a taper has been evaluated
ThresholdTaperEvaluated ==
    /\ thr_pc = "returned"
    /\ Len(x) = 2
    /\ 2 * x[1] = 2 * st_range[1] - (st_range[2] - st_range[1])
    /\ st_range[2] < x[2]
    /\ 2 * x[2] < 2 * st_range[2] + (st_range[2] - st_range[1])
    /\ p[1] = 0
    /\ 0 < p[2] /\ p[2] < One

----------------------------------------------------------------------------
(* checkPriors: what a finished call did, against what the configured      *)
(* priors return on their probe values                                     *)

Finished == pc \in {"returned", "raised"}

\* the width probe values can be formed: the probed column has two distinct
\* levels at least
ProbesExist == Len(WidthGaps(data)) > 0

\* the probe values of prior i in the current call
ProbeValues(i) ==
    CASE i = 1 -> ThresholdProbe(data)
      [] i = 2 -> WidthProbe(data)
      [] i \in {3, 4} -> np_linspace(1, 9000, NumProbes)
      [] i = 5 -> np_linspace(0, 9000, NumProbes)

Output(i) == CallPrior(options.priors[i], ProbeValues(i))

Invalid(out) ==
    \E k \in 1..Len(out) : ~np_isfinite(out[k]) \/ out[k] < 0

HasZero(out) == \E k \in 1..Len(out) : out[k] = 0

AllPositive(out) ==
    \A k \in 1..Len(out) : np_isfinite(out[k]) /\ out[k] > 0

EventsOf(c) == SelectSeq(events, LAMBDA e : e.call = c)

Kinds(ev) == {ev[k].kind : k \in 1..Len(ev)}

DataUnchanged ==
    /\ Finished => data = entry
    /\ \A c \in 1..Len(probed) : probed[c] = probed[1]

\* each call evaluates the priors in the order of options['priors'], one
\* at a time; a warning or a raise follows the evaluation it is about; a
\* raise or an error ends the call
OrderedCalls ==
    \A c \in 1..calls :
        LET ev == EventsOf(c)
            evals == SelectSeq(ev, LAMBDA e : e.kind = "eval")
        IN  /\ \A k \in 1..Len(evals) : evals[k].idx = k
            /\ \A k \in 1..Len(ev) :
                  /\ ev[k].kind \in {"warn", "raise"} =>
                        /\ k > 1
                        /\ ev[k - 1].kind = "eval"
                        /\ ev[k - 1].idx = ev[k].idx
                  /\ ev[k].kind \in {"raise", "error"} => k = Len(ev)

\* in the current call: the raise is at the first prior with an invalid
\* output, a warned prior had no invalid output, and a call that returned
\* evaluated all five
FirstFailureStops ==
    LET ev == EventsOf(calls)
    IN  /\ \A k \in 1..Len(ev) :
              /\ ev[k].kind = "raise" =>
                    /\ pc = "raised"
                    /\ Invalid(Output(ev[k].idx))
                    /\ \A j \in 1..(ev[k].idx - 1) : ~Invalid(Output(j))
              /\ ev[k].kind = "warn" =>
                    /\ HasZero(Output(ev[k].idx))
                    /\ ~Invalid(Output(ev[k].idx))
        /\ pc = "returned" =>
              {ev[k].idx : k \in {j \in 1..Len(ev) : ev[j].kind = "eval"}} = 1..5

(* C10: checkPriors evaluates the five priors one at a time in the order   *)
(* threshold, width, lambda, gamma, eta and checks each output before the  *)
(* next evaluation; it raises at the first prior with a non-finite or      *)
(* negative output and evaluates no later prior; a zero warning comes only *)
(* after that prior passed both assertions; and what was emitted stays     *)
(* emitted.                                                                *)
ValidationInOrder ==
    /\ [](OrderedCalls /\ FirstFailureStops)
    /\ [][SubSeq(events', 1, Len(events)) = events]_vars

\* a call warned about one prior and then raised at a later one
WarnedThenRaised ==
    /\ pc = "raised"
    /\ \E j, k \in 1..Len(EventsOf(calls)) :
          /\ j < k
          /\ EventsOf(calls)[j].kind = "warn"
          /\ EventsOf(calls)[k].kind = "raise"
          /\ EventsOf(calls)[j].idx < EventsOf(calls)[k].idx

----------------------------------------------------------------------------
(* normalizePriors: the returned list against the configured priors        *)

Degenerate(i) == norm_options.borders[i][1] = norm_options.borders[i][2]

NonDegenerate(i) == norm_options.borders[i][1] < norm_options.borders[i][2]

\* the fraction equals 1
IsOne(q) == q[1] = q[2] /\ q[2] # 0

(* C2: normalizePriors returns one function per configured prior, in the   *)
(* order of options['priors']; at every index whose borders have lo = hi   *)
(* the function returns ones of the shape of its argument, whatever prior  *)
(* is configured there, and divides nothing.                               *)
FixedParameterIsOne ==
    priors # << >> =>
        /\ Len(priors) = Len(norm_options.priors)
        /\ Len(priors) = 5
        /\ \A i \in 1..5 :
              /\ NonDegenerate(i) => priors[i].func = norm_options.priors[i]
              /\ Degenerate(i) => priors[i].kind = "ones"
              /\ (Degenerate(i) /\ called.idx = i) =>
                    /\ Len(called.y) = Len(called.x)
                    /\ \A k \in 1..Len(called.y) : IsOne(called.y[k])
                    /\ ~called.divided

\* the function returned for a fixed parameter whose configured prior is
\* not flat has been called with two values
FixedParameterCalled ==
    /\ priors # << >>
    /\ called.idx \in 1..5
    /\ Degenerate(called.idx)
    /\ norm_options.priors[called.idx] # "flat"
    /\ Len(called.x) = 2

\* the trapezoid integral over borders b of the returned function fn, as a
\* fraction: sum(w * func(x) / integral)
ReturnedIntegral(fn, b) == <<PriorIntegral(fn.func, b), fn.integral>>

\* index i holds prior i divided by the integral of prior i over borders i
BoundToOwnPrior(i) ==
    /\ priors[i].kind = "quotient"
    /\ priors[i].func = norm_options.priors[i]
    /\ priors[i].integral =
          PriorIntegral(norm_options.priors[i], norm_options.borders[i])
    /\ called.idx = i =>
          /\ called.divided
          /\ \A k \in 1..Len(called.x) :
                called.y[k] =
                    <<2 * One * PriorAt(norm_options.priors[i], called.x[k]),
                      PriorIntegral(norm_options.priors[i],
                                        norm_options.borders[i])>>

\* C3 as stated: at every index with lo < hi the returned function is that
\* index's prior over that index's integral, and integrates to 1
NormalizedToOneAlways ==
    priors # << >> =>
        \A i \in 1..5 : NonDegenerate(i) =>
            /\ BoundToOwnPrior(i)
            /\ IsOne(ReturnedIntegral(priors[i], norm_options.borders[i]))

(* C3, amended: at every index with lo < hi the returned function is the   *)
(* prior configured at that index divided by the trapezoid integral of     *)
(* that same prior over 1000 points across [lo, hi]; when that integral is *)
(* not zero, the returned function's trapezoid integral over [lo, hi] is 1.*)
NormalizedToOne ==
    priors # << >> =>
        \A i \in 1..5 : NonDegenerate(i) =>
            /\ BoundToOwnPrior(i)
            /\ priors[i].integral # 0 =>
                  IsOne(ReturnedIntegral(priors[i], norm_options.borders[i]))

\* two indices with different priors and different non-zero integrals were
\* normalized, and the function of the earlier one has been called
TwoPriorsNormalized ==
    /\ priors # << >>
    /\ \E i, j \in 1..5 :
          /\ i < j
          /\ NonDegenerate(i) /\ NonDegenerate(j)
          /\ norm_options.priors[i] # norm_options.priors[j]
          /\ priors[i].integral # priors[j].integral
          /\ priors[i].integral # 0 /\ priors[j].integral # 0
          /\ called.idx = i
          /\ Len(called.x) = 2

----------------------------------------------------------------------------
(* C8: getStandardPriors returns five callables, in the order threshold,   *)
(* width, lambda, gamma, eta, and each of them, called with an array,      *)
(* returns an array of the same shape instead of failing.                  *)
StandardPriorsCallable ==
    /\ std_priors # << >> => Len(std_priors) = 5
    /\ std_called.idx # 0 =>
          /\ std_called.raised = "none"
          /\ std_called.shape = Len(std_called.x)

----------------------------------------------------------------------------
(* Result claims                                                            *)

\* the estimate the instance's estimate_type selects
SelectedEstimate ==
    IF the_result.estimate_type = "mean"
    THEN the_result.parameters_estimate_mean
    ELSE the_result.parameters_estimate_MAP

\* some requested criterion lies outside (gamma, 1 - lambda)
OutsideRange(criteria) ==
    \E k \in DOMAIN criteria :
        \/ criteria[k] <= SelectedEstimate.gamma
        \/ criteria[k] >= One - SelectedEstimate.lambda

(* C5: threshold(proportion_correct) raises ValueError exactly when some   *)
(* requested proportion is <= gamma or >= 1 - lambda of the estimate of    *)
(* the selected type; criteria strictly inside the range raise nothing.    *)
ThresholdRangeError ==
    res_out.op = "threshold" =>
        ((res_out.raised = "ValueError") <=> OutsideRange(res_out.arg))

\* a criterion above gamma, at or above 1 - lambda of the mean estimate, is
\* rejected while the mean estimate is selected
ThresholdAboveRejected ==
    /\ res_out.op = "threshold"
    /\ res_out.raised = "ValueError"
    /\ the_result.estimate_type = "mean"
    /\ \A k \in DOMAIN res_out.arg : res_out.arg[k] > SelectedEstimate.gamma
    /\ \E k \in DOMAIN res_out.arg :
          /\ res_out.arg[k] >= One - the_result.parameters_estimate_mean.lambda
          /\ res_out.arg[k] < One - the_result.parameters_estimate_MAP.lambda

(* C6: get_parameters_estimate returns the MAP mapping for 'MAP', the mean *)
(* mapping for 'mean', raises ValueError for any other value, and without  *)
(* an argument returns the mapping of the type most recently assigned to   *)
(* estimate_type, MAP if none was assigned.                                *)
EstimateSelected ==
    res_out.op = "get" =>
        CASE res_out.arg = "MAP" ->
               /\ res_out.raised = "none"
               /\ res_out.value = the_result.parameters_estimate_MAP
          [] res_out.arg = "mean" ->
               /\ res_out.raised = "none"
               /\ res_out.value = the_result.parameters_estimate_mean
          [] res_out.arg = "None" ->
               /\ res_out.raised = "none"
               /\ res_out.value = IF assigned = "mean"
                                  THEN the_result.parameters_estimate_mean
                                  ELSE the_result.parameters_estimate_MAP
          [] OTHER ->
               res_out.raised = "ValueError"

\* the call without an argument after 'mean' was assigned returned the mean
\* mapping of a result whose two estimates differ
MeanSelectedByDefault ==
    /\ res_out.op = "get"
    /\ res_out.arg = "None"
    /\ assigned = "mean"
    /\ res_out.value = the_result.parameters_estimate_mean
    /\ the_result.parameters_estimate_mean
         # the_result.parameters_estimate_MAP

\* the fields of a Result
ResultFields == DOMAIN the_result \ {"class"}

====
